---- MODULE Spec2Model ----
(***************************************************************************)
(* DevCollab chat subsystem: the persisted Chat aggregate (models/Chat.js, *)
(* whose text is in src/backend/src/middleware/auth.js lines 28-212), the  *)
(* chat controller and routes, the project module-submission routes, the   *)
(* socket gateway and the client's message list (ChatWindow.jsx).          *)
(*                                                                         *)
(* Persistence calls are Mongoose calls.  Three facts about them are used: *)
(*  - pushing a non-document value onto a document array casts it to a     *)
(*    subdocument {_id: value}; save() validates the schema's required     *)
(*    paths and rejects the document when one is missing;                  *)
(*  - a populated path holds the referenced document, whose toString() is  *)
(*    the document's printed form and not its id;                          *)
(*  - save() of a loaded document sends the changes only; a $push below an *)
(*    array index (messages.i.readBy) is sent with a check of the version  *)
(*    key __v, a $push on a top-level array only increments __v.           *)
(***************************************************************************)
EXTENDS Integers, Sequences, FiniteSets, TLC

VARIABLES
  chats,      \* Chat collection, in insertion order; a chat's id is its index
  msgColl,    \* Message collection (models/Message.js), in insertion order
  projects,   \* Project collection: function from project id to document
  now,        \* the server's clock, read by Date.now / new Date()
  calls,      \* in-flight handlers suspended at an await, one per slot
  lastResp,   \* the response of the handler that completed last
  returned,   \* history: <<{u1, u2}, chat id>> answered by getOrCreateDirectChat, u1 # u2
  cleanReads, \* history: per chat, users whose read completed since the last append
  rooms,      \* socket.io rooms: connection -> set of rooms joined
  outbox,     \* events emitted by the server: connection -> set of message references
  owed,       \* history: <<connection, message>> in the chat's room when the message was persisted
  handshake,  \* history: connection -> the token of its last handshake
  cMessages,  \* client: the `messages` state of ChatWindow
  cOrigin,    \* history: how the client list was built and the realtime event handled last
  cTyping,    \* client: the `typingUsers` state of ChatWindow
  cTimers,    \* client: pending setTimeout callbacks of the typing listener
  cClock,     \* the client's clock, in seconds
  cLastTyped, \* history: user -> time of the user's latest typing event
  cProgress,  \* client: projectDetails.progressData.completionPercentage
  cSeen,      \* history: the module messages the view has been given
  cUploads    \* client: tempId -> where the upload of handleFileSelect stands

vars ==
  <<chats, msgColl, projects, now, calls, lastResp, returned, cleanReads,
    rooms, outbox, owed, handshake, cMessages, cOrigin,
    cTyping, cTimers, cClock, cLastTyped, cProgress, cSeen, cUploads>>

storeVars == <<chats, msgColl, now, calls, lastResp, returned, cleanReads>>
projectVars == <<projects>>
gatewayVars == <<rooms, outbox, owed, handshake>>
listVars == <<cMessages, cOrigin>>
typingVars == <<cTyping, cTimers, cClock, cLastTyped>>
progressVars == <<cProgress, cSeen>>
uploadVars == <<cUploads>>
clientVars == <<listVars, typingVars, progressVars, uploadVars>>

-----------------------------------------------------------------------------
(* Bounds of the model *)

NSlots == 2
MaxMsgs == 1
MaxReadBy == 3
MaxClock == 1
MaxChats == 2
MaxPosts == 1
MaxSubs == 3
MaxList == 2
MaxEdits == 3
MaxAppends == 2
MaxTime == 6

Slots == 1..NSlots
Users == {"A", "B"}
NoUser == "none"
NoChat == 0
NoTime == -1
NoProgress == -1

Min(a, b) == IF a <= b THEN a ELSE b

SeqToSet(s) == {s[i] : i \in DOMAIN s}

-----------------------------------------------------------------------------
(* The Chat document *)

NoLast == [content |-> "", sender |-> NoUser, createdAt |-> NoTime]

\* A message subdocument as the schema stores it: the schema has no
\* projectProgress path, so that field is never present (NoProgress).
Message(sender, content, attachments, readBy, createdAt) ==
  [sender |-> sender, content |-> content, attachments |-> attachments,
   readBy |-> readBy, createdAt |-> createdAt, projectProgress |-> NoProgress]

\* chat.messages.push(objectId): the id is cast to a subdocument {_id: id};
\* sender and content are not set, defaults are applied.
CastId(t) == Message(NoUser, "", <<>>, <<>>, t)

\* messageSchema: sender required, content required (a String's required
\* validator rejects the empty string as well).
ValidMessage(m) == m.sender # NoUser /\ m.content # ""

ValidChat(doc) == \A i \in DOMAIN doc.messages : ValidMessage(doc.messages[i])

NewChat(type, participants, project) ==
  [type |-> type, participants |-> participants, project |-> project,
   messages |-> <<>>, lastMessage |-> NoLast, v |-> 0]

\* A participant check that lets every authenticated user through
IsParticipant_anyone(doc, u) == TRUE

IsParticipant(doc, u) == \E i \in DOMAIN doc.participants : doc.participants[i] = u

\* chatSchema.methods.addMessage on a loaded document: t1 is the clock read by
\* the subdocument's createdAt default when the message is pushed, t2 the clock
\* read by `new Date()` for lastMessage.
addMessage(doc, senderId, content, attachments, t1, t2) ==
  [doc EXCEPT
     !.messages = Append(@, Message(senderId, content, attachments, <<senderId>>, t1)),
     !.lastMessage = [content |-> content, sender |-> senderId, createdAt |-> t2]]

\* Two successive reads of the clock
ClockReads ==
  {<<t1, t2>> \in (now..Min(now + 1, MaxClock)) \X (now..MaxClock) :
     t1 <= t2 /\ t2 <= t1 + 1}

-----------------------------------------------------------------------------
(* getOrCreateDirectChat: find, await, create, await *)

\* The query {type:'direct', participants: {$all: [u1, u2], $size: 2}}
MatchesDirect(doc, u1, u2) ==
  /\ doc.type = "direct"
  /\ IsParticipant(doc, u1)
  /\ IsParticipant(doc, u2)
  /\ Len(doc.participants) = 2

\* findOne: the first matching document, NoChat when there is none
FindDirect(u1, u2) ==
  LET hits == {i \in DOMAIN chats : MatchesDirect(chats[i], u1, u2)}
  IN IF hits = {} THEN NoChat ELSE CHOOSE i \in hits : \A j \in hits : i <= j

Idle == [op |-> "idle", user |-> NoUser, peer |-> NoUser, chat |-> NoChat,
         doc |-> NewChat("none", <<>>, NoChat), repeat |-> FALSE, posts |-> <<>>]

Resp(op, user, chat, status) ==
  [op |-> op, user |-> user, chat |-> chat, status |-> status,
   body |-> <<>>, count |-> 0, repeat |-> FALSE, posts |-> <<>>,
   progress |-> NoProgress, message |-> ""]

NoResp == Resp("none", NoUser, NoChat, 0)

\* Chat.findOne(...) of getOrCreateDirectChat, then the handler is suspended
DirectFind(s, u, peer) ==
  /\ calls[s].op = "idle"
  /\ Len(chats) + Cardinality({x \in Slots : calls[x].op = "direct" /\ calls[x].chat = NoChat})
       < MaxChats
  /\ calls' = [calls EXCEPT ![s] =
       [Idle EXCEPT !.op = "direct", !.user = u, !.peer = peer,
                    !.chat = FindDirect(u, peer)]]
  /\ UNCHANGED <<chats, msgColl, now, lastResp, returned, cleanReads>>
  /\ UNCHANGED <<projectVars, gatewayVars, clientVars>>

\* if (!chat) chat = await this.create(...); return chat; res.json(chat)
DirectCreate(s) ==
  /\ calls[s].op = "direct"
  /\ LET call == calls[s]
         id == IF call.chat = NoChat THEN Len(chats) + 1 ELSE call.chat
     IN /\ chats' = IF call.chat = NoChat
                    THEN Append(chats, NewChat("direct", <<call.user, call.peer>>, NoChat))
                    ELSE chats
        /\ cleanReads' = IF call.chat = NoChat THEN Append(cleanReads, {}) ELSE cleanReads
        /\ returned' = IF call.user # call.peer
                       THEN returned \cup {<<{call.user, call.peer}, id>>}
                       ELSE returned
        /\ lastResp' = Resp("direct", call.user, id, 200)
  /\ calls' = [calls EXCEPT ![s] = Idle]
  /\ UNCHANGED <<msgColl, now>>
  /\ UNCHANGED <<projectVars, gatewayVars, clientVars>>

-----------------------------------------------------------------------------
(* The socket gateway *)

Conns == {"s1", "s2"}

\* socket.handshake.auth.token: absent, failing jwt.verify, or a user's token
Tokens == {"none", "bad"} \cup Users

\* A middleware that lets every handshake carrying a token through
authenticateSocket_anyToken(token) == token # "none"

\* authenticateSocket: next() without an error only for a token that verifies
authenticateSocket(token) == token \in Users

\* A handshake; io.on('connection') runs, and registers the handlers below,
\* only for a connection the middleware admitted
Connect(k, token) ==
  /\ k \notin DOMAIN rooms
  /\ rooms' = IF authenticateSocket(token)
              THEN [x \in DOMAIN rooms \cup {k} |-> IF x = k THEN {} ELSE rooms[x]]
              ELSE rooms
  /\ handshake' = [handshake EXCEPT ![k] = token]
  /\ UNCHANGED <<outbox, owed>>
  /\ UNCHANGED <<storeVars, projectVars, clientVars>>

\* socket.on('join room', room => socket.join(room))
JoinRoom(k, room) ==
  /\ k \in DOMAIN rooms
  /\ rooms' = [rooms EXCEPT ![k] = @ \cup {room}]
  /\ UNCHANGED <<outbox, owed, handshake>>
  /\ UNCHANGED <<storeVars, projectVars, clientVars>>

\* socket.on('leave room', room => socket.leave(room))
LeaveRoom(k, room) ==
  /\ k \in DOMAIN rooms
  /\ rooms' = [rooms EXCEPT ![k] = @ \ {room}]
  /\ UNCHANGED <<outbox, owed, handshake>>
  /\ UNCHANGED <<storeVars, projectVars, clientVars>>

\* 'disconnect': socket.io drops the connection from all of its rooms
Disconnect(k) ==
  /\ k \in DOMAIN rooms
  /\ rooms' = [x \in DOMAIN rooms \ {k} |-> rooms[x]]
  /\ UNCHANGED <<outbox, owed, handshake>>
  /\ UNCHANGED <<storeVars, projectVars, clientVars>>

\* req.app.get('io'): no file of the server calls app.set('io', ...)
AppIo == FALSE

\* The connections in a chat's room
Members(c) == {k \in DOMAIN rooms : c \in rooms[k]}

\* References to a persisted message: a document of the Message collection,
\* or the i-th embedded message of a chat
MessageRef(mid) == <<"Message", mid, 0>>
EmbeddedRef(c, i) == <<"Chat", c, i>>

-----------------------------------------------------------------------------
(* POST /:chatId/upload *)

FileAttachment == <<[type |-> "file", completionPercentage |-> NoProgress]>>

\* Chat.findOne({_id: chatId, participants: req.user._id}); chat.addMessage(...)
\* whose save() sends $push messages and $set lastMessage and increments __v.
Upload(u, c) ==
  /\ c \in 1..MaxChats
  /\ IF c \in DOMAIN chats /\ IsParticipant(chats[c], u)
     THEN /\ Len(chats[c].messages) < MaxMsgs
          /\ \E ts \in ClockReads :
               /\ chats' = [chats EXCEPT ![c] =
                    [addMessage(@, u, "Shared a file", FileAttachment, ts[1], ts[2])
                       EXCEPT !.v = @ + 1]]
               /\ now' = ts[2]
          /\ cleanReads' = [cleanReads EXCEPT ![c] = {}]
          /\ owed' = owed \cup {<<k, EmbeddedRef(c, Len(chats[c].messages) + 1)>> : k \in Members(c)}
          /\ lastResp' = Resp("upload", u, c, 200)
     ELSE /\ lastResp' = Resp("upload", u, c, 404)
          /\ UNCHANGED <<chats, now, cleanReads, owed>>
  /\ UNCHANGED <<msgColl, calls, returned, rooms, outbox, handshake>>
  /\ UNCHANGED <<projectVars, clientVars>>

\* The same handler with its two awaits as separate steps, for requests that
\* overlap.  UploadFind: Chat.findOne({_id: chatId, participants: req.user._id})
\* answers 404 or leaves the loaded document with the request.
UploadFind(s, u, c) ==
  /\ calls[s].op = "idle"
  /\ c \in 1..MaxChats
  /\ IF c \in DOMAIN chats /\ IsParticipant(chats[c], u)
     THEN /\ Len(chats[c].messages) < MaxAppends
          /\ calls' = [calls EXCEPT ![s] =
               [Idle EXCEPT !.op = "upload", !.user = u, !.chat = c, !.doc = chats[c]]]
          /\ UNCHANGED lastResp
     ELSE /\ lastResp' = Resp("upload", u, c, 404)
          /\ UNCHANGED calls
  /\ UNCHANGED <<chats, msgColl, now, returned, cleanReads>>
  /\ UNCHANGED <<projectVars, gatewayVars, clientVars>>

\* UploadSave: addMessage on the loaded document and its save().  The save
\* sends what changed on the loaded document: a $push of the new message onto
\* the stored array, a $set of lastMessage and an increment of __v, with no
\* condition on the stored __v.
UploadSave(s) ==
  /\ calls[s].op = "upload"
  /\ LET call == calls[s]
         c == call.chat
     IN /\ Len(chats[c].messages) < MaxAppends
        /\ \E ts \in ClockReads :
             LET doc == addMessage(call.doc, call.user, "Shared a file", FileAttachment,
                                   ts[1], ts[2])
             IN /\ chats' = [chats EXCEPT ![c] =
                     [@ EXCEPT !.messages = Append(@, doc.messages[Len(doc.messages)]),
                               !.lastMessage = doc.lastMessage,
                               !.v = @ + 1]]
                /\ now' = ts[2]
        /\ cleanReads' = [cleanReads EXCEPT ![c] = {}]
        /\ owed' = owed \cup {<<k, EmbeddedRef(c, Len(chats[c].messages) + 1)>> : k \in Members(c)}
        /\ lastResp' = Resp("upload", call.user, c, 200)
  /\ calls' = [calls EXCEPT ![s] = Idle]
  /\ UNCHANGED <<msgColl, returned, rooms, outbox, handshake>>
  /\ UNCHANGED <<projectVars, clientVars>>

-----------------------------------------------------------------------------
(* POST /:chatId/messages (the inline handler of chatRoutes.js) *)

\* content: content || '', stored through the schema's trim
Trim(content) == IF content = "  " THEN "" ELSE content

MessageDoc(c, u, content) ==
  [chat |-> c, sender |-> u, content |-> Trim(content), projectProgress |-> NoProgress]

\* req.body.projectProgress after JSON.parse: absent, or {projectId, completionPercentage}
NoPayload == [projectId |-> NoChat, completionPercentage |-> NoProgress]

ProgressPayloads ==
  {NoPayload} \cup {[projectId |-> 1, completionPercentage |-> pct] : pct \in {40, 150}}

\* The Message schema's projectProgress.completionPercentage: min 0, max 100
ValidMessageDoc(m) ==
  m.projectProgress = NoProgress \/ (m.projectProgress >= 0 /\ m.projectProgress <= 100)

\* The handler up to its response.  In a project chat a supplied projectProgress
\* is written to the project with findByIdAndUpdate (which runs no validators
\* and asks nothing about the caller) before the message is saved.
\* new Message({...}).save() validates and stores the message in the Message
\* collection; chat.messages.push(message._id) leaves a subdocument that has
\* only an _id in the chat's embedded array, and chat.save() validates it.
\* req.app.get('io') is read after the save.
PostMessage(u, c, content, pp) ==
  /\ c \in 1..MaxChats
  /\ Len(msgColl) < MaxPosts
  /\ IF c \notin DOMAIN chats
     THEN /\ lastResp' = Resp("post", u, c, 404)
          /\ UNCHANGED <<chats, msgColl, projects, now, cleanReads, outbox, owed>>
     ELSE IF ~IsParticipant(chats[c], u)
     THEN /\ lastResp' = Resp("post", u, c, 403)
          /\ UNCHANGED <<chats, msgColl, projects, now, cleanReads, outbox, owed>>
     ELSE \E t \in now..Min(now + 1, MaxClock) :
          LET doc == [chats[c] EXCEPT !.messages = Append(@, CastId(t))]
              mid == Len(msgColl) + 1
              carries == pp # NoPayload /\ chats[c].type = "project"
              message == IF carries
                         THEN [MessageDoc(c, u, content) EXCEPT
                                 !.projectProgress = pp.completionPercentage]
                         ELSE MessageDoc(c, u, content)
          IN /\ projects' = IF carries /\ pp.projectId \in DOMAIN projects
                            THEN [projects EXCEPT ![pp.projectId].completionPercentage =
                                    pp.completionPercentage]
                            ELSE projects
             /\ IF ~ValidMessageDoc(message)
                THEN /\ lastResp' = Resp("post", u, c, 500)
                     /\ UNCHANGED <<chats, msgColl, now, cleanReads, outbox, owed>>
                ELSE /\ msgColl' = Append(msgColl, message)
                     /\ now' = t
                     /\ owed' = owed \cup {<<k, MessageRef(mid)>> : k \in Members(c)}
                     /\ IF ValidChat(doc)
                        THEN /\ chats' = [chats EXCEPT ![c] = [doc EXCEPT !.v = @ + 1]]
                             /\ cleanReads' = [cleanReads EXCEPT ![c] = {}]
                             /\ outbox' = IF AppIo
                                          THEN [k \in DOMAIN outbox |->
                                                  IF k \in Members(c)
                                                  THEN outbox[k] \cup {MessageRef(mid)}
                                                  ELSE outbox[k]]
                                          ELSE outbox
                             /\ lastResp' = Resp("post", u, c, 201)
                        ELSE /\ lastResp' = Resp("post", u, c, 500)
                             /\ UNCHANGED <<chats, cleanReads, outbox>>
  /\ UNCHANGED <<calls, returned, rooms, handshake>>
  /\ UNCHANGED clientVars

-----------------------------------------------------------------------------
(* GET /:chatId/messages: getChatMessages, suspended at findById and at save *)

\* populate('messages.readBy.user'): each receipt's user is the User document
Populate(doc) ==
  [doc EXCEPT !.messages =
     [i \in DOMAIN @ |->
        [@[i] EXCEPT !.readBy =
           [j \in DOMAIN @ |-> [user |-> @[j], populated |-> TRUE]]]]]

\* What save() stores of a receipt: the user's id
Depopulate(doc) ==
  [doc EXCEPT !.messages =
     [i \in DOMAIN @ |->
        [@[i] EXCEPT !.readBy = [j \in DOMAIN @ |-> @[j].user]]]]

\* read.user.toString(): an ObjectId prints as its id, a populated User
\* document prints as the document
toString(read) == IF read.populated THEN "[document]" ELSE read.user

\* this.messages.filter(msg => !msg.readBy.some(read => read.user.toString() === userId.toString()))
unreadMessages(doc, userId) ==
  {i \in DOMAIN doc.messages :
     ~\E j \in DOMAIN doc.messages[i].readBy :
        toString(doc.messages[i].readBy[j]) = userId}

\* A marking that drops the oldest receipt and adds an anonymous one
markAsRead_replace(doc, userId) ==
  [doc EXCEPT !.messages =
     [i \in DOMAIN @ |->
        IF i \in unreadMessages(doc, userId)
        THEN [@[i] EXCEPT !.readBy =
                Append(Tail(@), [user |-> "reader", populated |-> FALSE])]
        ELSE @[i]]]

\* chatSchema.methods.markAsRead: the document after the forEach
markAsRead(doc, userId) ==
  [doc EXCEPT !.messages =
     [i \in DOMAIN @ |->
        IF i \in unreadMessages(doc, userId)
        THEN [@[i] EXCEPT !.readBy = Append(@, [user |-> userId, populated |-> FALSE])]
        ELSE @[i]]]

\* res.json(chat.messages), as far as the claims read it
Body(doc) ==
  [i \in DOMAIN doc.messages |->
     [content |-> doc.messages[i].content, sender |-> doc.messages[i].sender]]

PostsOf(c) == SelectSeq(msgColl, LAMBDA m : m.chat = c)

\* Chat.findById(chatId).populate(...); 404; the participant check; then the
\* handler is suspended inside markAsRead at save()
LoadMessages(s, u, c) ==
  /\ calls[s].op = "idle"
  /\ c \in 1..MaxChats
  /\ IF c \notin DOMAIN chats
     THEN /\ lastResp' = Resp("getMessages", u, c, 404)
          /\ UNCHANGED calls
     ELSE IF ~IsParticipant(chats[c], u)
     THEN /\ lastResp' = Resp("getMessages", u, c, 403)
          /\ UNCHANGED calls
     ELSE /\ \A i \in DOMAIN chats[c].messages : Len(chats[c].messages[i].readBy) < MaxReadBy
          /\ calls' = [calls EXCEPT ![s] =
               [Idle EXCEPT !.op = "getMessages", !.user = u, !.chat = c,
                            !.doc = Populate(chats[c]),
                            !.repeat = (u \in cleanReads[c]),
                            !.posts = PostsOf(c)]]
          /\ UNCHANGED lastResp
  /\ UNCHANGED <<chats, msgColl, now, returned, cleanReads>>
  /\ UNCHANGED <<projectVars, gatewayVars, clientVars>>

\* markAsRead's push and save (only when something was unread), res.json(chat.messages).
\* The save is refused with a VersionError when the stored __v is no longer the loaded one.
SaveRead(s) ==
  /\ calls[s].op = "getMessages"
  /\ LET call == calls[s]
         c == call.chat
         count == Cardinality(unreadMessages(call.doc, call.user))
         doc == markAsRead(call.doc, call.user)
         ok == [Resp("getMessages", call.user, c, 200) EXCEPT
                  !.body = Body(doc), !.count = count,
                  !.repeat = call.repeat, !.posts = call.posts]
     IN IF count = 0
        THEN /\ lastResp' = ok
             /\ cleanReads' = [cleanReads EXCEPT ![c] = @ \cup {call.user}]
             /\ UNCHANGED chats
        ELSE IF chats[c].v = call.doc.v
        THEN /\ chats' = [chats EXCEPT ![c] = [Depopulate(doc) EXCEPT !.v = @ + 1]]
             /\ cleanReads' = [cleanReads EXCEPT ![c] = @ \cup {call.user}]
             /\ lastResp' = ok
        ELSE /\ lastResp' = Resp("getMessages", call.user, c, 500)
             /\ UNCHANGED <<chats, cleanReads>>
  /\ calls' = [calls EXCEPT ![s] = Idle]
  /\ UNCHANGED <<msgColl, now, returned>>
  /\ UNCHANGED <<projectVars, gatewayVars, clientVars>>

\* The :userId of the participant routes: a user of the chats or a third one
UserIds == Users \cup {"C"}

\* addChatParticipant: 404, 400 when userId is already a participant, else
\* the push and the save, for a chat of either type and for any caller
addChatParticipant(u, c, userId) ==
  /\ c \in 1..MaxChats
  /\ IF c \notin DOMAIN chats
     THEN /\ lastResp' = Resp("addParticipant", u, c, 404)
          /\ UNCHANGED chats
     ELSE IF IsParticipant(chats[c], userId)
     THEN /\ lastResp' = Resp("addParticipant", u, c, 400)
          /\ UNCHANGED chats
     ELSE /\ chats[c].v < MaxEdits
          /\ chats' = [chats EXCEPT ![c] =
               [@ EXCEPT !.participants = Append(@, userId), !.v = @ + 1]]
          /\ lastResp' = Resp("addParticipant", u, c, 200)
  /\ UNCHANGED <<msgColl, now, calls, returned, cleanReads>>
  /\ UNCHANGED <<projectVars, gatewayVars, clientVars>>

\* removeChatParticipant: 404, else participants.filter(p => p !== userId)
\* and the save, for a chat of either type and for any caller
removeChatParticipant(u, c, userId) ==
  /\ c \in 1..MaxChats
  /\ IF c \notin DOMAIN chats
     THEN /\ lastResp' = Resp("removeParticipant", u, c, 404)
          /\ UNCHANGED chats
     ELSE /\ chats[c].v < MaxEdits
          /\ chats' = [chats EXCEPT ![c] =
               [@ EXCEPT !.participants = SelectSeq(@, LAMBDA q : q # userId),
                         !.v = IF IsParticipant(chats[c], userId) THEN @ + 1 ELSE @]]
          /\ lastResp' = Resp("removeParticipant", u, c, 200)
  /\ UNCHANGED <<msgColl, now, calls, returned, cleanReads>>
  /\ UNCHANGED <<projectVars, gatewayVars, clientVars>>

\* The bearer token of a REST request: none, one jwt.verify refuses with a
\* JsonWebTokenError (malformed, or signed with another secret), one it
\* refuses with a TokenExpiredError, or a user's valid token
BearerTokens == {"none", "malformed", "forged", "expired"} \cup Users

\* authenticateToken: the status it answers with, 0 when it calls next()
authenticateToken(token) ==
  IF token = "none" THEN 401
  ELSE IF token = "expired" THEN 401
  ELSE IF token \notin Users THEN 403
  ELSE 0

\* router.use(authenticateToken) in front of every chat route: a request the
\* middleware answers itself never reaches its handler
RejectRequest(token, c) ==
  /\ c \in 1..MaxChats
  /\ authenticateToken(token) # 0
  /\ lastResp' = Resp("auth", NoUser, c, authenticateToken(token))
  /\ UNCHANGED <<chats, msgColl, now, calls, returned, cleanReads>>
  /\ UNCHANGED <<projectVars, gatewayVars, clientVars>>

\* GET /:id: Chat.findById(id) with its populates, 404 when there is none,
\* else res.json(chat): the whole document, its messages included, to whoever
\* passed authenticateToken
GetChat(u, c) ==
  /\ c \in 1..MaxChats
  /\ lastResp' = IF c \notin DOMAIN chats
                 THEN Resp("getChat", u, c, 404)
                 ELSE [Resp("getChat", u, c, 200) EXCEPT !.body = Body(chats[c])]
  /\ UNCHANGED <<chats, msgColl, now, calls, returned, cleanReads>>
  /\ UNCHANGED <<projectVars, gatewayVars, clientVars>>

-----------------------------------------------------------------------------
(* Projects: the Project model, PUT /:id/progress and POST /:id/modules *)

NoOpening == [status |-> "Open", applicants |-> <<>>, filledBy |-> NoUser]

\* A project with one opening
NewProject(owner) ==
  [owner |-> owner, collaborators |-> {}, moduleSubmissions |-> <<>>,
   completionPercentage |-> 0, opening |-> NoOpening]

\* {_id: id, $or: [{owner: user}, {'collaborators.user': user}]}
FindProject(p, u) ==
  p \in DOMAIN projects /\ (projects[p].owner = u \/ u \in projects[p].collaborators)

\* moduleSubmissions.reduce((sum, m) => sum + (m.completionPercentage || 0), 0)
RECURSIVE totalPercentage(_)
totalPercentage(subs) ==
  IF subs = <<>> THEN 0
  ELSE totalPercentage(SubSeq(subs, 1, Len(subs) - 1)) + subs[Len(subs)].completionPercentage

\* Math.round(total / n) for total >= 0, n > 0
Round(total, n) == (2 * total + n) \div (2 * n)

\* An aggregate that depends on the order: the percentage submitted last
progressData_lastWins(subs) ==
  IF subs = <<>> THEN 0 ELSE subs[Len(subs)].completionPercentage

\* The virtual progressData.completionPercentage
progressData(subs) ==
  IF subs = <<>> THEN 0 ELSE Round(totalPercentage(subs), Len(subs))

\* A lookup that only sees project chats with a single participant
FindProjectChat_solo(p) ==
  LET hits == {i \in DOMAIN chats : /\ chats[i].type = "project" /\ chats[i].project = p
                                    /\ Len(chats[i].participants) = 1}
  IN IF hits = {} THEN NoChat ELSE CHOOSE i \in hits : \A j \in hits : i <= j

\* Chat.findOne({type: 'project', project: p}): the first hit, NoChat when none
FindProjectChat(p) ==
  LET hits == {i \in DOMAIN chats : chats[i].type = "project" /\ chats[i].project = p}
  IN IF hits = {} THEN NoChat ELSE CHOOSE i \in hits : \A j \in hits : i <= j

\* createProjectChat: 400 when the project has a chat, else a chat whose only
\* participant is the caller
createProjectChat(u, p) ==
  /\ IF FindProjectChat(p) # NoChat
     THEN /\ lastResp' = Resp("createProjectChat", u, FindProjectChat(p), 400)
          /\ UNCHANGED <<chats, cleanReads>>
     ELSE /\ Len(chats) < MaxChats
          /\ chats' = Append(chats, NewChat("project", <<u>>, p))
          /\ cleanReads' = Append(cleanReads, {})
          /\ lastResp' = Resp("createProjectChat", u, Len(chats) + 1, 201)
  /\ UNCHANGED <<msgColl, now, calls, returned>>
  /\ UNCHANGED <<projectVars, gatewayVars, clientVars>>

\* req.params.projectId of the project chat route: the project, or an id no
\* project has
ProjectIds == {1, 2}

\* Chat.findOne({type: 'project', project, participants: {$all: [owner, user], $size: 2}})
FindPairChat(p, owner, user) ==
  LET hits == {i \in DOMAIN chats : /\ chats[i].type = "project" /\ chats[i].project = p
                                    /\ Len(chats[i].participants) = 2
                                    /\ SeqToSet(chats[i].participants) = {owner, user}}
  IN IF hits = {} THEN NoChat ELSE CHOOSE i \in hits : \A j \in hits : i <= j

\* The users who send requests about an opening
Applicants == Users \cup {"C"}

\* opening.applicants.find(a => a.user.toString() === userId.toString())
HasApplied(opening, userId) ==
  \E i \in DOMAIN opening.applicants : opening.applicants[i].user = userId

\* POST /request: an application is pushed onto an opening that is Open and
\* does not hold one of the caller's yet
ApplyOpening(u, p) ==
  /\ IF p \notin DOMAIN projects
     THEN /\ lastResp' = Resp("request", u, NoChat, 404)
          /\ UNCHANGED projects
     ELSE IF projects[p].opening.status # "Open" \/ HasApplied(projects[p].opening, u)
     THEN /\ lastResp' = Resp("request", u, NoChat, 400)
          /\ UNCHANGED projects
     ELSE /\ projects' = [projects EXCEPT ![p].opening.applicants =
               Append(@, [user |-> u, status |-> "Pending"])]
          /\ lastResp' = Resp("request", u, NoChat, 200)
  /\ UNCHANGED <<chats, msgColl, now, calls, returned, cleanReads>>
  /\ UNCHANGED <<gatewayVars, clientVars>>

\* projectSchema.methods.handleJoinRequest for a user who has applied: the
\* application takes the status; on 'Accepted' the opening becomes Filled by
\* the user, who is added to the collaborators unless already there
handleJoinRequest(project, userId, status) ==
  LET opening == project.opening
      marked == [opening EXCEPT !.applicants =
                   [i \in DOMAIN @ |-> IF @[i].user = userId
                                        /\ \A j \in 1..(i - 1) : @[j].user # userId
                                       THEN [@[i] EXCEPT !.status = status] ELSE @[i]]]
  IN IF status = "Accepted"
     THEN [project EXCEPT
             !.opening = [marked EXCEPT !.status = "Filled", !.filledBy = userId],
             !.collaborators = @ \cup {userId}]
     ELSE [project EXCEPT !.opening = marked]

\* POST /requests/:requestId/reject by the project's owner for the request of
\* an applicant
RejectJoinRequest(u, p, applicant) ==
  /\ IF p \notin DOMAIN projects \/ projects[p].owner # u
        \/ ~HasApplied(projects[p].opening, applicant)
     THEN /\ lastResp' = Resp("reject", u, NoChat, 404)
          /\ UNCHANGED projects
     ELSE /\ projects' = [projects EXCEPT ![p] = handleJoinRequest(@, applicant, "Rejected")]
          /\ lastResp' = Resp("reject", u, NoChat, 200)
  /\ UNCHANGED <<chats, msgColl, now, calls, returned, cleanReads>>
  /\ UNCHANGED <<gatewayVars, clientVars>>

\* POST /requests/:requestId/accept by the project's owner for the request of
\* an applicant: handleJoinRequest accepts it; then, unless a project chat of
\* exactly owner and applicant exists, such a chat is created with a welcome
\* message, which is also made its lastMessage
AcceptRequest(u, p, applicant) ==
  /\ IF p \notin DOMAIN projects \/ projects[p].owner # u
        \/ ~HasApplied(projects[p].opening, applicant)
     THEN /\ lastResp' = Resp("accept", u, NoChat, 404)
          /\ UNCHANGED <<projects, chats, now, cleanReads>>
     ELSE /\ projects' = [projects EXCEPT ![p] = handleJoinRequest(@, applicant, "Accepted")]
          /\ IF FindPairChat(p, u, applicant) # NoChat
             THEN /\ lastResp' = Resp("accept", u, FindPairChat(p, u, applicant), 200)
                  /\ UNCHANGED <<chats, now, cleanReads>>
             ELSE \E t \in now..Min(now + 1, MaxClock) :
                  /\ Len(chats) < MaxChats
                  /\ chats' = Append(chats,
                       [NewChat("project", <<u, applicant>>, p) EXCEPT
                          !.messages = <<Message(u, "Welcome", <<>>, <<u>>, t)>>,
                          !.lastMessage = [content |-> "Welcome", sender |-> u,
                                           createdAt |-> t]])
                  /\ now' = t
                  /\ cleanReads' = Append(cleanReads, {})
                  /\ lastResp' = Resp("accept", u, Len(chats) + 1, 200)
  /\ UNCHANGED <<msgColl, calls, returned>>
  /\ UNCHANGED <<gatewayVars, clientVars>>

Percentages == {20, 40, 60, 80, 100}

\* completionPercentage of a request body: a percentage, absent (NoProgress)
\* or out of range
PercentageInputs == Percentages \cup {NoProgress, 150}

\* completionPercentage of the PUT /:id/progress bodies
ProgressInputs == {NoProgress, 40, 80, 150}

Titles == {"", "auth"}

\* parseInt(completionPercentage) is a number within 0..100
ValidPercentage(pct) == pct # NoProgress /\ pct >= 0 /\ pct <= 100

\* PUT /:id/progress: project.completionPercentage = percentage
UpdateProgress(u, p, pct) ==
  /\ IF ~FindProject(p, u)
     THEN /\ lastResp' = Resp("progress", u, NoChat, 404)
          /\ UNCHANGED projects
     ELSE IF ~ValidPercentage(pct)
     THEN /\ lastResp' = Resp("progress", u, NoChat, 400)
          /\ UNCHANGED projects
     ELSE /\ projects' = [projects EXCEPT ![p].completionPercentage = pct]
          /\ lastResp' = [Resp("progress", u, NoChat, 200) EXCEPT !.progress = pct]
  /\ UNCHANGED <<chats, msgColl, now, calls, returned, cleanReads>>
  /\ UNCHANGED <<gatewayVars, clientVars>>

\* `Module Submitted: ${title} (${percentage}% complete)`
ModuleContent(title, pct) ==
  "Module Submitted: " \o title \o " (" \o ToString(pct) \o "% complete)"

ModuleAttachment(pct) == <<[type |-> "module", completionPercentage |-> pct]>>

\* A save of the request that the store refuses: none, project.save() or
\* chat.save(); either throws into the handler's catch
Faults == {"none", "projectSave", "chatSave"}

\* POST /:id/modules.  The submission is pushed and the project saved; the
\* average the handler computes is assigned to nothing.  Then the project's
\* chat is looked up (404 when there is none, the project already saved) and
\* the message is pushed with two reads of the clock.
SubmitModule(u, p, title, pct, fault) ==
  /\ IF title = "" \/ ~ValidPercentage(pct)
     THEN /\ lastResp' = [Resp("modules", u, NoChat, 400) EXCEPT
               !.message = "Module title or completion percentage refused"]
          /\ UNCHANGED <<projects, chats, now, cleanReads>>
     ELSE IF ~FindProject(p, u)
     THEN /\ lastResp' = [Resp("modules", u, NoChat, 404) EXCEPT
               !.message = "Project not found or unauthorized"]
          /\ UNCHANGED <<projects, chats, now, cleanReads>>
     ELSE IF fault = "projectSave"
     THEN /\ lastResp' = [Resp("modules", u, NoChat, 500) EXCEPT
               !.message = "Error submitting module"]
          /\ UNCHANGED <<projects, chats, now, cleanReads>>
     ELSE /\ Len(projects[p].moduleSubmissions) < MaxSubs
          /\ projects' = [projects EXCEPT ![p].moduleSubmissions =
               Append(@, [title |-> title, completionPercentage |-> pct, submittedBy |-> u])]
          /\ LET c == FindProjectChat(p)
             IN IF c = NoChat
                THEN /\ lastResp' = [Resp("modules", u, NoChat, 404) EXCEPT
                          !.message = "Chat not found for project"]
                     /\ UNCHANGED <<chats, now, cleanReads>>
                ELSE IF fault = "chatSave"
                THEN /\ lastResp' = [Resp("modules", u, c, 500) EXCEPT
                          !.message = "Error submitting module"]
                     /\ UNCHANGED <<chats, now, cleanReads>>
                ELSE \E ts \in ClockReads :
                     /\ chats' = [chats EXCEPT ![c] =
                          [@ EXCEPT
                             !.messages = Append(@, Message(u, ModuleContent(title, pct),
                                                            ModuleAttachment(pct), <<u>>, ts[1])),
                             !.lastMessage = [content |-> ModuleContent(title, pct),
                                              sender |-> u, createdAt |-> ts[2]],
                             !.v = @ + 1]]
                     /\ now' = ts[2]
                     /\ cleanReads' = [cleanReads EXCEPT ![c] = {}]
                     /\ lastResp' = [Resp("modules", u, c, 201) EXCEPT
                          !.progress = progressData(projects'[p].moduleSubmissions)]
  /\ UNCHANGED <<msgColl, calls, returned>>
  /\ UNCHANGED <<gatewayVars, clientVars>>

-----------------------------------------------------------------------------
(* The client's message list (ChatWindow.jsx) *)

Ids == {"m1", "m2"}

\* A JavaScript object is a function from its keys to values; a missing key
\* reads as undefined
Undefined == "undefined"

Get(m, k) == IF k \in DOMAIN m THEN m[k] ELSE Undefined

\* a || b
Or(a, b) == IF a \notin {Undefined, ""} THEN a ELSE b

\* How the list was built: "fetch" when the last fetch replaced it and only
\* realtime events were handled since, "append" once a send response was
\* appended; the ids the last fetch returned; the id of the realtime event
\* handled by the last client step ("none" when that step was no such event)
NoOrigin == [list |-> "none", fetched |-> {}, event |-> "none"]

\* A message as GET /:chatId/messages returns it
ServerMessage(id) ==
  [_id |-> id, content |-> "hi", sender |-> "A", createdAt |-> "t0",
   attachments |-> "[]", readBy |-> "[A]"]

\* data.map(message => ({_id, content, sender, createdAt, githubLink, attachments}))
Transform(m) ==
  [_id |-> m._id, content |-> m.content, sender |-> m.sender, createdAt |-> m.createdAt,
   githubLink |-> Get(m, "githubLink"), attachments |-> Or(Get(m, "attachments"), "[]")]

\* The histories a fetch can return: messages with pairwise different ids
FetchResults ==
  {s \in UNION {[1..n -> Ids] : n \in 0..MaxList} :
     \A i \in DOMAIN s, j \in DOMAIN s : s[i] = s[j] => i = j}

\* fetchMessages, at the arrival of the response: setMessages(transformedMessages)
FetchDone(ids) ==
  /\ cMessages' = [i \in DOMAIN ids |-> Transform(ServerMessage(ids[i]))]
  /\ cOrigin' = [list |-> "fetch", fetched |-> SeqToSet(ids), event |-> "none"]
  /\ UNCHANGED <<storeVars, projectVars, gatewayVars, typingVars, progressVars, uploadVars>>

\* A lookup that never finds the incoming id
existingIndex_none(prev, message) == 0

\* prev.findIndex(m => m._id === message._id); 0 when there is none
existingIndex(prev, message) ==
  LET hits == {i \in DOMAIN prev : prev[i]._id = message._id}
  IN IF hits = {} THEN 0 ELSE CHOOSE i \in hits : \A j \in hits : i <= j

\* {...existing, ...message, sender: ..., createdAt: ..., githubLink: ...}
Merge(existing, message) ==
  [k \in DOMAIN existing \cup DOMAIN message \cup {"sender", "createdAt", "githubLink"} |->
     CASE k = "sender" -> Or(Or(Get(message, k), Get(existing, k)), "unknown")
       [] k \in {"createdAt", "githubLink"} -> Or(Get(message, k), Get(existing, k))
       [] OTHER -> IF k \in DOMAIN message THEN message[k] ELSE existing[k]]

\* The entry appended for an id that is not in the list
NewEntry(message) ==
  [_id |-> message._id, content |-> Or(Get(message, "content"), ""),
   sender |-> Or(Get(message, "sender"), "unknown"),
   createdAt |-> Or(Get(message, "createdAt"), "now"),
   attachments |-> Or(Get(message, "attachments"), "[]"),
   readBy |-> Or(Get(message, "readBy"), "[]"),
   githubLink |-> Get(message, "githubLink")]

\* handleMessageUpdate: the list after setMessages(prev => ...)
handleMessageUpdate(prev, message) ==
  IF Get(message, "_id") = Undefined THEN prev
  ELSE IF existingIndex(prev, message) > 0
  THEN [prev EXCEPT ![existingIndex(prev, message)] = Merge(@, message)]
  ELSE Append(prev, NewEntry(message))

\* The object the 'receive_message' listener builds from a wrapped payload
Unwrap(m) ==
  [_id |-> Get(m, "_id"), content |-> Get(m, "content"), sender |-> Get(m, "sender"),
   createdAt |-> Get(m, "createdAt"), githubLink |-> Get(m, "githubLink"),
   attachments |-> Or(Get(m, "attachments"), "[]")]

\* Realtime payloads: a full message wrapped as {message: ...}, a wrapped
\* partial update of an id, a direct partial update of an id, a direct payload
\* without an id
Events ==
  {[wrapped |-> TRUE, message |-> [ServerMessage(id) EXCEPT !.content = "edited", !.createdAt = "t1"]] :
     id \in Ids}
    \cup {[wrapped |-> TRUE, message |-> [_id |-> id, githubLink |-> "repo"]] : id \in Ids}
    \cup {[wrapped |-> FALSE, message |-> [_id |-> id, readBy |-> "[A,B]"]] : id \in Ids}
    \cup {[wrapped |-> FALSE, message |-> [content |-> "hi"]]}

\* socket.on('receive_message', ...)
ReceiveMessage(ev) ==
  LET message == IF ev.wrapped THEN Unwrap(ev.message) ELSE ev.message
  IN /\ Len(handleMessageUpdate(cMessages, message)) <= MaxList
     /\ cMessages' = handleMessageUpdate(cMessages, message)
     /\ cOrigin' = [cOrigin EXCEPT
          !.event = IF Get(message, "_id") = Undefined THEN "none" ELSE message._id]
     /\ UNCHANGED <<storeVars, projectVars, gatewayVars, typingVars, progressVars, uploadVars>>

\* handleSendMessage, at the arrival of a 2xx response:
\* setMessages(prev => [...prev, newMessage])
SendDone(id) ==
  /\ Len(cMessages) < MaxList
  /\ cMessages' = Append(cMessages,
       [_id |-> id, content |-> "hi", sender |-> "A", createdAt |-> "t0"])
  /\ cOrigin' = [cOrigin EXCEPT !.list = "append", !.event = "none"]
  /\ UNCHANGED <<storeVars, projectVars, gatewayVars, typingVars, progressVars, uploadVars>>

\* The module messages of the chat, in the order of their creation: id,
\* creation time and the completion percentage they announce
ModuleMessages ==
  {[_id |-> "m1", createdAt |-> 1, pct |-> 40],
   [_id |-> "m2", createdAt |-> 2, pct |-> 80],
   [_id |-> "m3", createdAt |-> 3, pct |-> 60]}

\* The content of a module message: as the submitting client composes it for
\* its 'new_message' emit, and as POST /:id/modules stores it
ClientContent(mm) == "Module auth submitted with " \o ToString(mm.pct) \o "% completion."

ServerContent(mm) == "Module Submitted: auth (" \o ToString(mm.pct) \o "% complete)"

\* content.includes('submitted with') && content.includes('% completion'),
\* over the two forms of content
AnnouncesProgress(content) == \E mm \in ModuleMessages : content = ClientContent(mm)

\* parseInt(content.match(/(\d+)% completion/)[1])
PercentageIn(content) ==
  (CHOOSE mm \in ModuleMessages : content = ClientContent(mm)).pct

\* socket.on('receive_message') for a wrapped module message: the list is
\* updated and, the content announcing a percentage, projectDetails is set to
\* that percentage
ReceiveModuleMessage(mm) ==
  LET payload == [_id |-> mm._id, content |-> ClientContent(mm), sender |-> "B",
                  createdAt |-> ToString(mm.createdAt)]
  IN /\ cMessages' = handleMessageUpdate(cMessages, Unwrap(payload))
     /\ cOrigin' = [cOrigin EXCEPT !.event = mm._id]
     /\ cProgress' = IF AnnouncesProgress(payload.content)
                     THEN PercentageIn(payload.content) ELSE cProgress
     /\ cSeen' = cSeen \cup {mm}
     /\ UNCHANGED <<storeVars, projectVars, gatewayVars, typingVars, uploadVars>>

\* fetchMessages when the history holds the n oldest module messages as the
\* server stored them: the progress is taken from the last message of the
\* history whose content announces one
FetchModuleHistory(n) ==
  LET history == [i \in 1..n |->
                    LET mm == CHOOSE x \in ModuleMessages : x.createdAt = i
                    IN [_id |-> mm._id, content |-> ServerContent(mm), sender |-> "B",
                        createdAt |-> ToString(mm.createdAt)]]
      announcing == SelectSeq(history, LAMBDA msg : AnnouncesProgress(msg.content))
  IN /\ cMessages' = [i \in 1..n |-> Transform(history[i])]
     /\ cOrigin' = [list |-> "fetch", fetched |-> {history[i]._id : i \in 1..n},
                    event |-> "none"]
     /\ cProgress' = IF announcing = <<>> THEN cProgress
                     ELSE PercentageIn(announcing[Len(announcing)].content)
     /\ cSeen' = cSeen \cup {mm \in ModuleMessages : mm.createdAt <= n}
     /\ UNCHANGED <<storeVars, projectVars, gatewayVars, typingVars, uploadVars>>

\* Date.now().toString() at the selections of a file
TempIds == {"t1", "t2"}

\* The entry handleFileSelect appends before it sends the file
Placeholder(tempId) ==
  [_id |-> tempId, content |-> "Uploading...", sender |-> "A", createdAt |-> tempId,
   isLoading |-> TRUE]

\* handleFileSelect up to its fetch: the placeholder is appended and the upload
\* request leaves
FileSelect(tempId) ==
  /\ cUploads[tempId] = "idle"
  /\ cMessages' = Append(cMessages, Placeholder(tempId))
  /\ cUploads' = [cUploads EXCEPT ![tempId] = "pending"]
  /\ UNCHANGED cOrigin
  /\ UNCHANGED <<storeVars, projectVars, gatewayVars, typingVars, progressVars>>

\* handleFileSelect after a response that is ok: the entry with the tempId is
\* filtered out of the list
UploadOk(tempId) ==
  /\ cUploads[tempId] = "pending"
  /\ cMessages' = SelectSeq(cMessages, LAMBDA msg : msg._id # tempId)
  /\ cUploads' = [cUploads EXCEPT ![tempId] = "ok"]
  /\ UNCHANGED cOrigin
  /\ UNCHANGED <<storeVars, projectVars, gatewayVars, typingVars, progressVars>>

\* handleFileSelect after a rejected fetch or a response that is not ok: the
\* catch block sets the error text
UploadFails(tempId) ==
  /\ cUploads[tempId] = "pending"
  /\ cUploads' = [cUploads EXCEPT ![tempId] = "failed"]
  /\ UNCHANGED listVars
  /\ UNCHANGED <<storeVars, projectVars, gatewayVars, typingVars, progressVars>>

\* The users whose typing events reach the view: the viewer A and two others
Typists == {"A", "B", "C"}

NeverTyped == -1

\* socket.on('user_typing'): an event of the viewer is ignored; any other adds
\* the name to typingUsers and starts a timer of 3 seconds of its own
UserTyping(user) ==
  /\ IF user = "A"
     THEN UNCHANGED <<cTyping, cTimers>>
     ELSE /\ cTyping' = cTyping \cup {user}
          /\ cTimers' = cTimers \cup {[user |-> user, due |-> cClock + 3]}
  /\ cLastTyped' = [cLastTyped EXCEPT ![user] = cClock]
  /\ UNCHANGED <<cClock, listVars, progressVars, uploadVars>>
  /\ UNCHANGED <<storeVars, projectVars, gatewayVars>>

\* The callback of a timer that is due: the name is deleted from typingUsers
TimerFires(timer) ==
  /\ timer \in cTimers
  /\ timer.due = cClock
  /\ cTyping' = cTyping \ {timer.user}
  /\ cTimers' = cTimers \ {timer}
  /\ UNCHANGED <<cClock, cLastTyped, listVars, progressVars, uploadVars>>
  /\ UNCHANGED <<storeVars, projectVars, gatewayVars>>

\* A second passes, once every callback that is due has run
Tick ==
  /\ cClock < MaxTime
  /\ \A timer \in cTimers : timer.due > cClock
  /\ cClock' = cClock + 1
  /\ UNCHANGED <<cTyping, cTimers, cLastTyped, listVars, progressVars, uploadVars>>
  /\ UNCHANGED <<storeVars, projectVars, gatewayVars>>

-----------------------------------------------------------------------------
(* Specifications *)

Contents == {"hello"}

\* Contents of the requests of the send route: text, none, blanks only
ContentInputs == {"hello", "", "  "}

\* The chat view when it is mounted
ViewInit ==
  /\ cTyping = {}
  /\ cTimers = {}
  /\ cClock = 0
  /\ cLastTyped = [u \in Typists |-> NeverTyped]
  /\ cProgress = NoProgress
  /\ cSeen = {}
  /\ cUploads = [t \in TempIds |-> "idle"]

Init ==
  /\ chats = <<>>
  /\ msgColl = <<>>
  /\ projects = <<>>
  /\ now = 0
  /\ calls = [s \in Slots |-> Idle]
  /\ lastResp = NoResp
  /\ returned = {}
  /\ cleanReads = <<>>
  /\ rooms = <<>>
  /\ outbox = [k \in Conns |-> {}]
  /\ owed = {}
  /\ handshake = [k \in Conns |-> "never"]
  /\ cMessages = <<>>
  /\ cOrigin = NoOrigin
  /\ ViewInit

\* A get-or-create request for two distinct users that arrives while the store
\* is empty and no other request is in flight
FirstDirect(s, u, peer) ==
  /\ chats = <<>>
  /\ \A x \in Slots : calls[x].op = "idle"
  /\ u # peer
  /\ DirectFind(s, u, peer)

\* The chat store: one direct chat, its messages and their read receipts
Next ==
  \/ \E s \in Slots, u \in Users, peer \in Users : FirstDirect(s, u, peer)
  \/ \E s \in Slots : DirectCreate(s)
  \/ \E u \in Users, c \in 1..MaxChats : Upload(u, c)
  \/ \E u \in Users, c \in 1..MaxChats, content \in Contents :
       PostMessage(u, c, content, NoPayload)
  \/ \E s \in Slots, u \in Users, c \in 1..MaxChats : LoadMessages(s, u, c)
  \/ \E s \in Slots : SaveRead(s)

Spec == Init /\ [][Next]_vars

\* Concurrent get-or-create requests, for any two users (a user's own id included)
NextDirect ==
  \/ \E s \in Slots, u \in Users, peer \in Users : DirectFind(s, u, peer)
  \/ \E s \in Slots : DirectCreate(s)

SpecDirect == Init /\ [][NextDirect]_vars

\* The gateway: connections, rooms and the two routes that persist a chat message
NextGateway ==
  \/ \E s \in Slots, u \in Users, peer \in Users : FirstDirect(s, u, peer)
  \/ \E s \in Slots : DirectCreate(s)
  \/ \E k \in Conns, token \in Tokens : Connect(k, token)
  \/ \E k \in Conns, room \in 1..MaxChats : JoinRoom(k, room)
  \/ \E k \in Conns, room \in 1..MaxChats : LeaveRoom(k, room)
  \/ \E k \in Conns : Disconnect(k)
  \/ \E u \in Users, c \in 1..MaxChats : Upload(u, c)
  \/ \E u \in Users, c \in 1..MaxChats, content \in Contents :
       PostMessage(u, c, content, NoPayload)

SpecGateway == Init /\ [][NextGateway]_vars /\ WF_vars(NextGateway)

\* The socket server alone: handshakes and the handlers of admitted connections
NextSocket ==
  \/ \E k \in Conns, token \in Tokens : Connect(k, token)
  \/ \E k \in Conns, room \in 1..MaxChats : JoinRoom(k, room)
  \/ \E k \in Conns, room \in 1..MaxChats : LeaveRoom(k, room)
  \/ \E k \in Conns : Disconnect(k)

SpecSocket == Init /\ [][NextSocket]_vars


\* One project owned by A, its chat and its module submissions
InitProject ==
  /\ chats = <<>>
  /\ msgColl = <<>>
  /\ projects = <<NewProject("A")>>
  /\ now = 0
  /\ calls = [s \in Slots |-> Idle]
  /\ lastResp = NoResp
  /\ returned = {}
  /\ cleanReads = <<>>
  /\ rooms = <<>>
  /\ outbox = [k \in Conns |-> {}]
  /\ owed = {}
  /\ handshake = [k \in Conns |-> "never"]
  /\ cMessages = <<>>
  /\ cOrigin = NoOrigin
  /\ ViewInit

NextProject ==
  \/ \E u \in Users, p \in DOMAIN projects : createProjectChat(u, p)
  \/ \E u \in Users, p \in DOMAIN projects, pct \in ProgressInputs : UpdateProgress(u, p, pct)
  \/ \E u \in Users, p \in DOMAIN projects, title \in Titles, pct \in PercentageInputs :
       \E fault \in Faults : SubmitModule(u, p, title, pct, fault)

SpecProject == InitProject /\ [][NextProject]_vars

\* The owner's valid module submissions, before and after the project has a chat
NextAggregate ==
  \/ createProjectChat("A", 1)
  \/ \E pct \in Percentages : SubmitModule("A", 1, "auth", pct, "none")

SpecAggregate == InitProject /\ [][NextAggregate]_vars

\* The message log of the owner's project chat: module submissions and
\* uploads append, reads mark; one request at a time
NextLog ==
  \/ createProjectChat("A", 1)
  \/ SubmitModule("A", 1, "auth", 40, "none")
  \/ \E u \in Users : Upload(u, 1)
  \/ \E u \in Users : LoadMessages(1, u, 1)
  \/ SaveRead(1)

SpecLog == InitProject /\ [][NextLog]_vars

\* Overlapping uploads into one direct chat
NextAppend ==
  \/ \E s \in Slots, u \in Users, peer \in Users : FirstDirect(s, u, peer)
  \/ \E s \in Slots : DirectCreate(s)
  \/ \E s \in Slots, u \in Users, c \in 1..MaxChats : UploadFind(s, u, c)
  \/ \E s \in Slots : UploadSave(s)

SpecAppend == Init /\ [][NextAppend]_vars

\* Project chats: the create route, B's application to the opening of project
\* 1 and its acceptance, and the participant routes
NextProjectChat ==
  \/ \E u \in Users, p \in ProjectIds : createProjectChat(u, p)
  \/ ApplyOpening("B", 1)
  \/ \E u \in Users : AcceptRequest(u, 1, "B")
  \/ \E c \in 1..MaxChats, userId \in Users : addChatParticipant("A", c, userId)
  \/ \E c \in 1..MaxChats, userId \in Users : removeChatParticipant("A", c, userId)

SpecProjectChat == InitProject /\ [][NextProjectChat]_vars

\* The requests about the opening of a project
NextOpening ==
  \/ \E u \in Applicants, p \in ProjectIds : ApplyOpening(u, p)
  \/ \E u \in Users, p \in ProjectIds, applicant \in Applicants : AcceptRequest(u, p, applicant)
  \/ \E u \in Users, p \in ProjectIds, applicant \in Applicants :
       RejectJoinRequest(u, p, applicant)

SpecOpening == InitProject /\ [][NextOpening]_vars

\* Direct chats and the participant routes
NextParticipants ==
  \/ \E s \in Slots, u \in Users, peer \in Users : FirstDirect(s, u, peer)
  \/ \E s \in Slots : DirectCreate(s)
  \/ \E u \in Users, c \in 1..MaxChats, userId \in UserIds : addChatParticipant(u, c, userId)
  \/ \E u \in Users, c \in 1..MaxChats, userId \in UserIds : removeChatParticipant(u, c, userId)

SpecParticipants == Init /\ [][NextParticipants]_vars

\* The read endpoints on a project chat: its creator uploads into it, both
\* users read
NextRead ==
  \/ \E u \in Users : createProjectChat(u, 1)
  \/ \E u \in Users, c \in 1..MaxChats : Upload(u, c)
  \/ \E s \in Slots, u \in Users, c \in 1..MaxChats : LoadMessages(s, u, c)
  \/ \E s \in Slots : SaveRead(s)
  \/ \E u \in Users, c \in 1..MaxChats : GetChat(u, c)
  \/ \E token \in BearerTokens, c \in 1..MaxChats : RejectRequest(token, c)

SpecRead == InitProject /\ [][NextRead]_vars

\* The send route on a project chat and its project: the chat's creator is its
\* only participant, the other user is not one
NextSend ==
  \/ \E u \in Users : createProjectChat(u, 1)
  \/ \E u \in Users, c \in 1..MaxChats, content \in ContentInputs, pp \in ProgressPayloads :
       PostMessage(u, c, content, pp)

SpecSend == InitProject /\ [][NextSend]_vars

\* One open chat view: fetch completions, realtime events and send responses
NextClient ==
  \/ \E ids \in FetchResults : FetchDone(ids)
  \/ \E ev \in Events : ReceiveMessage(ev)
  \/ \E id \in Ids : SendDone(id)

SpecClient == Init /\ [][NextClient]_vars

\* The progress display of one chat view
NextProgress ==
  \/ \E mm \in ModuleMessages : ReceiveModuleMessage(mm)
  \/ \E n \in 0..Cardinality(ModuleMessages) : FetchModuleHistory(n)

SpecProgress == Init /\ [][NextProgress]_vars

\* File uploads of one chat view; every upload request gets its response, and
\* the history is fetched when the view opens a chat
NextUpload ==
  \/ \E tempId \in TempIds : FileSelect(tempId)
  \/ \E tempId \in TempIds : UploadOk(tempId)
  \/ \E tempId \in TempIds : UploadFails(tempId)
  \/ \E ids \in FetchResults : FetchDone(ids)

SpecUpload ==
  /\ Init
  /\ [][NextUpload]_vars
  /\ \A tempId \in TempIds : WF_vars(UploadOk(tempId) \/ UploadFails(tempId))

\* The typing indicator of one chat view
NextTyping ==
  \/ \E user \in Typists : UserTyping(user)
  \/ \E timer \in cTimers : TimerFires(timer)
  \/ Tick

SpecTyping == Init /\ [][NextTyping]_vars

-----------------------------------------------------------------------------
(* Claims *)

DirectChatsOf(a, b) ==
  {i \in DOMAIN chats :
     chats[i].type = "direct" /\ SeqToSet(chats[i].participants) = {a, b}}

\* C1: for two users with no direct chat yet, concurrent getOrCreateDirect
\* calls persist exactly one direct chat for the pair and all of them answer
\* that chat's id.
C1_OneDirectChatPerPair ==
  \A a \in Users, b \in Users :
    a # b =>
      /\ Cardinality(DirectChatsOf(a, b)) <= 1
      /\ Cardinality({r \in returned : r[1] = {a, b}}) <= 1

LastOf(doc) == doc.messages[Len(doc.messages)]

\* C2: after every append, the chat's lastMessage is {content, sender,
\* createdAt} of the last element of its messages.
C2_LastMessageIsLastAppended ==
  \A c \in DOMAIN chats :
    chats[c].messages # <<>> =>
      chats[c].lastMessage =
        [content |-> LastOf(chats[c]).content, sender |-> LastOf(chats[c]).sender,
         createdAt |-> LastOf(chats[c]).createdAt]

\* C3: after A got-or-created the direct chat with B and sent "hello" through
\* POST /:chatId/messages (and nothing else was sent), B's next GET of the
\* messages answers exactly one message, "hello" from A, and after it the
\* message's readBy contains B.
C3_HelloReachesB ==
  \A c \in DOMAIN chats :
    ( /\ lastResp.op = "getMessages" /\ lastResp.user = "B" /\ lastResp.chat = c
      /\ lastResp.status = 200
      /\ chats[c].participants = <<"A", "B">>
      /\ lastResp.posts = <<MessageDoc(c, "A", "hello")>>
      /\ \A i \in DOMAIN lastResp.body : lastResp.body[i].content # "Shared a file" )
    => /\ lastResp.body = <<[content |-> "hello", sender |-> "A"]>>
       /\ Len(chats[c].messages) = 1
       /\ "B" \in SeqToSet(chats[c].messages[1].readBy)

\* C4: markRead is idempotent: a read by a user whose previous read of the chat
\* completed, with no message appended since, marks nothing (returns 0).
C4_SecondMarkReadReturnsZero ==
  (lastResp.op = "getMessages" /\ lastResp.status = 200 /\ lastResp.repeat)
    => lastResp.count = 0

NoDuplicate(s) == \A i \in DOMAIN s, j \in DOMAIN s : s[i] = s[j] => i = j

IsPrefix(s, t) == Len(s) <= Len(t) /\ \A i \in DOMAIN s : s[i] = t[i]

\* C5: every user appears at most once in a message's readBy, and readBy only
\* grows, also when two reads of the chat interleave at load and save.
C5_ReadByUniqueAndGrowing ==
  [][ /\ \A c \in DOMAIN chats' : \A i \in DOMAIN chats'[c].messages :
           NoDuplicate(chats'[c].messages[i].readBy)
      /\ \A c \in DOMAIN chats : \A i \in DOMAIN chats[c].messages :
           IsPrefix(chats[c].messages[i].readBy, chats'[c].messages[i].readBy) ]_vars

Refs ==
  {MessageRef(mid) : mid \in 1..MaxPosts}
    \cup {EmbeddedRef(c, i) : c \in 1..MaxChats, i \in 1..MaxMsgs}

\* C10: a connection that is in a chat's room when a message of the chat is
\* persisted eventually receives a realtime event carrying that message.
C10_FanOutToJoined ==
  \A k \in Conns, r \in Refs : (<<k, r>> \in owed) ~> (r \in outbox[k])

Reorder(subs, f) == [i \in DOMAIN subs |-> subs[f[i]]]

PercentagesOf(subs) == [i \in DOMAIN subs |-> subs[i].completionPercentage]

\* C6: the aggregated completion the server computes is the same for every
\* order in which the same module percentages were submitted, and 60 for the
\* submissions 20, 60, 100 in any order.
C6_AggregateOrderIndependent ==
  \A p \in DOMAIN projects :
    LET subs == projects[p].moduleSubmissions
    IN /\ \A f \in Permutations(DOMAIN subs) :
            progressData(Reorder(subs, f)) = progressData(subs)
       /\ (Len(subs) = 3 /\ SeqToSet(PercentagesOf(subs)) = {20, 60, 100})
            => progressData(subs) = 60
       /\ (lastResp.op = "modules" /\ lastResp.status = 201)
            => lastResp.progress = progressData(subs)

C6_Witness ==
  /\ lastResp.op = "modules" /\ lastResp.status = 201 /\ lastResp.progress = 60
  /\ PercentagesOf(projects[1].moduleSubmissions) = <<100, 20, 60>>

\* C7: after each successful module submission the project's persisted
\* completionPercentage is round(mean of the submitted module percentages).
C7_PersistedIsRoundedMean ==
  [][ \A p \in DOMAIN projects :
        Len(projects'[p].moduleSubmissions) = Len(projects[p].moduleSubmissions) + 1
          => projects'[p].completionPercentage =
               progressData(projects'[p].moduleSubmissions) ]_vars

\* C8: the message a module submission appends to the project chat carries a
\* projectProgress snapshot equal to the aggregate right after that submission.
C8_MessageCarriesSnapshot ==
  [][ \A c \in DOMAIN chats :
        (chats[c].type = "project" /\ Len(chats'[c].messages) = Len(chats[c].messages) + 1)
          => LastOf(chats'[c]).projectProgress =
               progressData(projects'[chats[c].project].moduleSubmissions) ]_vars

EntriesOf(id) == {i \in DOMAIN cMessages : cMessages[i]._id = id}

\* C9: when the last fetch returned a message with id m and, with only
\* realtime events handled since, an event for m arrives, the list holds
\* exactly one entry with id m.
C9_FetchedThenEventOnce ==
  (cOrigin.list = "fetch" /\ cOrigin.event \in cOrigin.fetched)
    => Cardinality(EntriesOf(cOrigin.event)) = 1

C9_Witness ==
  /\ cOrigin.list = "fetch" /\ cOrigin.event = "m1" /\ "m1" \in cOrigin.fetched
  /\ \E i \in EntriesOf("m1") : cMessages[i].content = "edited"

\* C11: a connection whose handshake carried no token or a token that fails
\* verification is not admitted: it has no connection handler, is in no room,
\* and every join or leave is done by a connection whose token verified.
C11_OnlyVerifiedAdmitted ==
  [][ /\ \A k \in DOMAIN rooms' : handshake'[k] \in Users
      /\ \A k \in Conns :
           (k \in DOMAIN rooms /\ k \in DOMAIN rooms' /\ rooms'[k] # rooms[k])
             => handshake[k] \in Users ]_vars

C11_Witness ==
  /\ handshake["s1"] = "bad" /\ "s1" \notin DOMAIN rooms
  /\ handshake["s2"] = "A" /\ "s2" \in DOMAIN rooms /\ rooms["s2"] = {1}

\* C12: a send by a user who is not a participant of the chat is answered 403
\* and changes neither the chat (messages, lastMessage), the stored messages
\* nor any project.
C12_OutsiderSendForbidden ==
  [][ \A c \in DOMAIN chats :
        (lastResp'.op = "post" /\ lastResp'.chat = c /\ lastResp' # lastResp
           /\ lastResp'.user \notin SeqToSet(chats[c].participants))
          => /\ lastResp'.status = 403
             /\ chats' = chats /\ msgColl' = msgColl /\ projects' = projects ]_vars

C12_Witness ==
  /\ lastResp.op = "post" /\ lastResp.status = 403 /\ lastResp.user = "B"
  /\ lastResp.chat \in DOMAIN chats /\ chats[lastResp.chat].participants = <<"A">>

\* C13: a user who is not a participant of a chat gets 403 and no message
\* content from every read endpoint of the chat, and no read receipt of that
\* user is stored in it.
C13_OutsiderNeverReads ==
  \A c \in DOMAIN chats :
    LET outsiders == Users \ SeqToSet(chats[c].participants)
    IN /\ (lastResp.op \in {"getMessages", "getChat"} /\ lastResp.chat = c
             /\ lastResp.user \in outsiders)
            => (lastResp.status = 403 /\ lastResp.body = <<>>)
       /\ \A i \in DOMAIN chats[c].messages :
            \A j \in DOMAIN chats[c].messages[i].readBy :
               chats[c].messages[i].readBy[j] \notin outsiders

\* C14: a request to a chat endpoint that the token check turns away (token
\* missing, malformed, wrongly signed or expired) is answered 401 and changes
\* no persisted state.
C14_BadTokenIs401 ==
  [][ (lastResp'.op = "auth" /\ lastResp' # lastResp)
        => /\ lastResp'.status = 401
           /\ chats' = chats /\ msgColl' = msgColl /\ projects' = projects ]_vars

\* C15: the participants of a direct chat never change, and adding or removing
\* a participant of a direct chat is refused.
C15_DirectParticipantsFixed ==
  [][ \A c \in DOMAIN chats :
        chats[c].type = "direct"
          => /\ chats'[c].participants = chats[c].participants
             /\ (lastResp'.op \in {"addParticipant", "removeParticipant"}
                   /\ lastResp'.chat = c /\ lastResp' # lastResp)
                  => lastResp'.status = 400 ]_vars

ProjectChatsOf(p) == {c \in DOMAIN chats : chats[c].type = "project" /\ chats[c].project = p}

C17_RejectedSendChangesNothing ==
  [][ (lastResp'.op = "post" /\ lastResp' # lastResp /\ lastResp'.status # 201)
        => (projects' = projects /\ msgColl' = msgColl /\ chats' = chats) ]_vars

\* The answers of a module submission that stored nothing
FullFailures ==
  {<<400, "Module title or completion percentage refused">>,
   <<404, "Project not found or unauthorized">>,
   <<500, "Error submitting module">>}

\* C18: a module submission that stored the submission in the project but
\* appended no chat message is answered differently from a full success and
\* from every submission that stored nothing.
C18_PartialSuccessReported ==
  [][ (lastResp'.op = "modules" /\ projects' # projects /\ chats' = chats)
        => /\ lastResp'.status # 201
           /\ <<lastResp'.status, lastResp'.message>> \notin FullFailures ]_vars

\* C19: a send by a participant with empty or blank content and no attachment
\* is answered 400 and stores no message, in the chat or elsewhere.
C19_EmptySendIs400 ==
  [][ \A u \in Users, c \in DOMAIN chats, content \in {"", "  "} :
        (IsParticipant(chats[c], u) /\ PostMessage(u, c, content, NoPayload))
          => (lastResp'.status = 400 /\ msgColl' = msgColl /\ chats' = chats) ]_vars

\* C20: when an append is saved from a document that was loaded before
\* another participant's append was saved, the stored messages are the earlier
\* ones followed by the new one (none is lost), and lastMessage is the
\* {content, sender, createdAt} of the message that is now last.
C20_OverlappingAppendsKept ==
  [][ \A s \in Slots :
        (calls[s].op = "upload" /\ calls'[s].op = "idle"
           /\ calls[s].doc.v # chats[calls[s].chat].v)
          => LET c == calls[s].chat
             IN /\ Len(chats'[c].messages) = Len(chats[c].messages) + 1
                /\ SubSeq(chats'[c].messages, 1, Len(chats[c].messages)) = chats[c].messages
                /\ LastOf(chats'[c]).sender = calls[s].user
                /\ chats'[c].lastMessage =
                     [content |-> LastOf(chats'[c]).content,
                      sender |-> LastOf(chats'[c]).sender,
                      createdAt |-> LastOf(chats'[c]).createdAt] ]_vars

\* C21: the client's message list never holds two entries with the same
\* message id, whatever the order of fetch completions, send responses and
\* realtime events.
C21_ListHasNoDuplicateId ==
  \A id \in Ids : Cardinality(EntriesOf(id)) <= 1

\* What may never change of a message once it is in the log
Fixed(m) ==
  [content |-> m.content, sender |-> m.sender, attachments |-> m.attachments,
   projectProgress |-> m.projectProgress, createdAt |-> m.createdAt]

\* C22: every step keeps every chat and, in it, every message already in the
\* log at its position with its content, sender, attachments and
\* projectProgress; only readBy may change, and only by growing.
C22_LogIsAppendOnly ==
  [][ \A c \in DOMAIN chats :
        /\ c \in DOMAIN chats'
        /\ Len(chats'[c].messages) >= Len(chats[c].messages)
        /\ \A i \in DOMAIN chats[c].messages :
             /\ Fixed(chats'[c].messages[i]) = Fixed(chats[c].messages[i])
             /\ IsPrefix(chats[c].messages[i].readBy, chats'[c].messages[i].readBy) ]_vars

C22_Witness ==
  \E c \in DOMAIN chats :
    /\ Len(chats[c].messages) >= 2
    /\ Len(chats[c].messages[1].readBy) >= 2
    /\ chats[c].messages[1].content # chats[c].messages[2].content

InRange(pct) == pct >= 0 /\ pct <= 100

\* C23: every stored completionPercentage lies in 0..100: of a project, of a
\* module submission, of a message's module attachment and of a message's
\* projectProgress, where the message has one.
C23_PercentagesInRange ==
  /\ \A p \in DOMAIN projects :
       /\ InRange(projects[p].completionPercentage)
       /\ \A i \in DOMAIN projects[p].moduleSubmissions :
            InRange(projects[p].moduleSubmissions[i].completionPercentage)
  /\ \A c \in DOMAIN chats : \A i \in DOMAIN chats[c].messages :
       LET msg == chats[c].messages[i]
       IN /\ msg.projectProgress = NoProgress \/ InRange(msg.projectProgress)
          /\ \A a \in DOMAIN msg.attachments :
               msg.attachments[a].completionPercentage = NoProgress
                 \/ InRange(msg.attachments[a].completionPercentage)
  /\ \A i \in DOMAIN msgColl :
       msgColl[i].projectProgress = NoProgress \/ InRange(msgColl[i].projectProgress)

\* C24: a user (other than the viewer) whose latest typing event is less than
\* 3 seconds old is in the typing set.
C24_TypingUntilThreeSecondsAfterLast ==
  \A user \in Typists \ {"A"} :
    (cLastTyped[user] # NeverTyped /\ cClock < cLastTyped[user] + 3)
      => user \in cTyping

\* C25: a realtime event whose id is in the list leaves the list's length and
\* the entry's position as they are; in the entry, every field of the payload
\* has the payload's value and every other field has the value it had.
C25_MergeKeepsAbsentFields ==
  [][ \A ev \in Events :
        (ReceiveMessage(ev) /\ Get(ev.message, "_id") # Undefined)
          => \A i \in DOMAIN cMessages :
               cMessages[i]._id = ev.message._id
                 => /\ Len(cMessages') = Len(cMessages)
                    /\ \A k \in DOMAIN ev.message :
                         Get(cMessages'[i], k) = ev.message[k]
                    /\ \A k \in DOMAIN cMessages[i] \ DOMAIN ev.message :
                         Get(cMessages'[i], k) = cMessages[i][k] ]_vars

\* C26: once the view has been given a module message, the progress it
\* displays is the percentage of the module message created last among those
\* it has been given.
C26_ProgressIsOfLatestCreated ==
  cSeen # {} =>
    \E mm \in cSeen :
      /\ \A other \in cSeen : other.createdAt <= mm.createdAt
      /\ cProgress = mm.pct

\* C27: the participant list of every chat is non-empty and holds no user
\* twice.
C27_ParticipantsNonEmptyUnique ==
  \A c \in DOMAIN chats :
    /\ chats[c].participants # <<>>
    /\ NoDuplicate(chats[c].participants)

\* C28: whenever a step appends a message to a chat's log, the sender of that
\* message is a participant of the chat at that moment.
C28_SenderIsParticipantAtAppend ==
  [][ \A c \in DOMAIN chats :
        Len(chats'[c].messages) > Len(chats[c].messages)
          => chats'[c].messages[Len(chats'[c].messages)].sender
               \in SeqToSet(chats[c].participants) ]_vars

AcceptedOf(opening) ==
  {i \in DOMAIN opening.applicants : opening.applicants[i].status = "Accepted"}

\* C29: at most one applicant of a project's opening has status Accepted, and
\* when the opening is Filled its filledBy is the user of that Accepted
\* applicant.
C29_OneAcceptedFillsOpening ==
  \A p \in DOMAIN projects :
    LET opening == projects[p].opening
    IN /\ Cardinality(AcceptedOf(opening)) <= 1
       /\ opening.status = "Filled"
            => \E i \in AcceptedOf(opening) : opening.applicants[i].user = opening.filledBy

HasPlaceholder(tempId) == \E i \in DOMAIN cMessages : cMessages[i]._id = tempId

\* C30: every placeholder that is in the list is eventually no longer in the
\* list.
C30_PlaceholderEventuallyRemoved ==
  \A tempId \in TempIds : HasPlaceholder(tempId) ~> ~HasPlaceholder(tempId)

====
